---- MODULE Spec2Model ----
(***************************************************************************)
(* A model of the UDP traceroute of this repository: func main of          *)
(* src/main.go and of its commented twin src/unnamed/part_000.  The two    *)
(* files are the same program but for the slice handed to                  *)
(* icmp.ParseMessage; the variable build says which of them runs.          *)
(*                                                                         *)
(* The program is one sequential flow of control, so the state is main's   *)
(* local variables, its position (pc), the resources it holds, what it     *)
(* has written to standard output and the log, and history (ghost)         *)
(* variables recording the probes sent and the receives attempted.         *)
(* The operating system and the network are the environment: every call    *)
(* into them returns one of its possible results, chosen with \E.          *)
(***************************************************************************)
EXTENDS Integers, Sequences, FiniteSets, TLC

VARIABLES
    build,       \* which source file runs: "main" (src/main.go) or "student" (src/unnamed/part_000)
    pc,          \* position of main
    ttl,         \* loop variable ttl (0 before the loop starts)
    icmpConn,    \* the shared ICMP listener: "none", "open", "closed"
    sendSockets, \* TTLs whose per-hop UDP send socket is open
    defers,      \* main's stack of deferred calls, last registered last
    recv,        \* result of the last icmpConn.ReadFrom: err, n, peerAddr, replyBytes
    line,        \* what the current iteration has printed to standard output
    completion,  \* the completion line ("Traceroute done!") has been printed
    logMsg,      \* what the current iteration (or the startup) has logged
    exitCode,    \* -1 while running, else the exit status of the process
    sent,        \* history: TTLs of the probes sent, in order
    hops,        \* history: hop numbers printed by the "%2d " prefix, in order
    reads,       \* history: TTLs for which ReadFrom was called, in order
    unanswered,  \* history: most recent TTL whose probe was not answered in its own iteration (0: none)
    allTimedOut  \* history: every ReadFrom so far ended with the timeout error

vars == <<build, pc, ttl, icmpConn, sendSockets, defers, recv, line,
          completion, logMsg, exitCode, sent, hops, reads, unanswered, allTimedOut>>

----------------------------------------------------------------------------
(* Bounds of the environment *)

\* number of distinct routers that may answer; address 0 is the target
NumRouters == 1

----------------------------------------------------------------------------
(* Program constants *)

maxHops == 30
BufSize == 1500
ICMPTypeDestinationUnreachable == 3
ICMPTypeRedirect == 5
ICMPTypeTimeExceeded == 11
CodePortUnreachable == 3
CodeHostUnreachable == 1

Target == 0
Routers == 1..NumRouters
Addrs == {Target} \cup Routers
NoAddr == -1

\* lengths of datagrams the raw socket may deliver: shorter than the ICMP
\* header, header plus a truncated body, a complete error message
PacketLens == {2, 6, 36}

NoRecv == [err |-> "none", n |-> 0, peerAddr |-> NoAddr, type |-> 0, code |-> 0, origin |-> 0]
\* lines counts the complete hop lines the iteration has printed; origin is
\* history, the origin of the message the line reports
NoLine == [hop |-> 0, addr |-> NoAddr, tag |-> "", num |-> -1, lines |-> 0, origin |-> -1]

----------------------------------------------------------------------------
(* icmp.ParseMessage of golang.org/x/net/icmp, as the program uses it *)

\* ICMPv4 types with a body parser (parseFns); the others get a raw body
HasBodyParser(type) == type \in {ICMPTypeDestinationUnreachable, ICMPTypeTimeExceeded}

\* TRUE iff ParseMessage(1, b) returns an error for a slice b of length len
\* whose first byte is type
ParseFails(len, type) ==
    \/ len < 4
    \/ HasBodyParser(type) /\ len - 4 < 4

\* length of the slice handed to ParseMessage
ParseLenMain(n) == n
ParseLenStudent(n) == BufSize

ParseLen(n) == IF build = "main" THEN ParseLenMain(n) ELSE ParseLenStudent(n)

----------------------------------------------------------------------------
(* The environment: what icmpConn.ReadFrom may deliver while main awaits   *)
(* the reply to the probe with TTL t.  origin is history: the TTL of the   *)
(* probe that triggered the message, 0 for a message no probe triggered.   *)

GenuineKinds == {<<ICMPTypeTimeExceeded, 0>>,
                 <<ICMPTypeDestinationUnreachable, CodeHostUnreachable>>,
                 <<ICMPTypeDestinationUnreachable, CodePortUnreachable>>}

Packets(t, late) ==
    {[err |-> "nil", n |-> 36, peerAddr |-> a, type |-> k[1], code |-> k[2], origin |-> o] :
        a \in Addrs, k \in GenuineKinds, o \in ({t, late} \ {0})}
    \cup
    {[err |-> "nil", n |-> l, peerAddr |-> a, type |-> ty, code |-> 0, origin |-> 0] :
        a \in Addrs, l \in PacketLens,
        ty \in {ICMPTypeDestinationUnreachable, ICMPTypeRedirect, ICMPTypeTimeExceeded}}

ReadResults(t, late) ==
    {[NoRecv EXCEPT !.err = "timeout"], [NoRecv EXCEPT !.err = "other"]}
    \cup Packets(t, late)

----------------------------------------------------------------------------
(* Initial state: the process has started, main has not run yet *)

Init ==
    /\ build \in {"main", "student"}
    /\ pc = "args"
    /\ ttl = 0
    /\ icmpConn = "none"
    /\ sendSockets = {}
    /\ defers = <<>>
    /\ recv = NoRecv
    /\ line = NoLine
    /\ completion = FALSE
    /\ logMsg = ""
    /\ exitCode = -1
    /\ sent = <<>>
    /\ hops = <<>>
    /\ reads = <<>>
    /\ unanswered = 0
    /\ allTimedOut = TRUE

----------------------------------------------------------------------------
(* Leaving main *)

\* Fatal as log.Printf followed by continue
FatalContinues(msg) ==
    /\ logMsg' = msg
    /\ ttl' = ttl + 1
    /\ pc' = "loop"
    /\ UNCHANGED <<build, icmpConn, sendSockets, defers, recv, line, exitCode,
                   completion, sent, hops, reads, unanswered, allTimedOut>>

\* Fatal as log.Printf followed by return, so that the status is 0
FatalReturns(msg) ==
    /\ logMsg' = msg
    /\ exitCode' = 0
    /\ pc' = "exit"
    /\ UNCHANGED <<build, ttl, icmpConn, sendSockets, defers, recv, line,
                   completion, sent, hops, reads, unanswered, allTimedOut>>

\* log.Fatalf: log the message and os.Exit(1); deferred calls do not run
Fatal(msg) ==
    /\ logMsg' = msg
    /\ exitCode' = 1
    /\ pc' = "exit"
    /\ UNCHANGED <<build, ttl, icmpConn, sendSockets, defers, recv, line,
                   completion, sent, hops, reads, unanswered, allTimedOut>>

\* the send sockets whose Close is on the defer stack ds
DeferredSockets(ds) == {ds[i][2] : i \in {j \in 1..Len(ds) : ds[j][1] = "p.Close"}}

\* Return with a non-zero exit status
ReturnNonZero ==
    /\ sendSockets' = sendSockets \ DeferredSockets(defers)
    /\ icmpConn' = IF \E i \in 1..Len(defers) : defers[i][1] = "icmpConn.Close"
                   THEN "closed" ELSE icmpConn
    /\ defers' = <<>>
    /\ exitCode' = 1
    /\ pc' = "exit"

\* main returns: the deferred calls run, then the process exits with status 0
Return ==
    /\ sendSockets' = sendSockets \ DeferredSockets(defers)
    /\ icmpConn' = IF \E i \in 1..Len(defers) : defers[i][1] = "icmpConn.Close"
                   THEN "closed" ELSE icmpConn
    /\ defers' = <<>>
    /\ exitCode' = 0
    /\ pc' = "exit"

\* Continue with a post statement that advances the TTL by two
ContinueSkip ==
    /\ ttl' = ttl + 2
    /\ recv' = NoRecv
    /\ pc' = "loop"

\* continue, or the end of the loop body: the post statement ttl++ runs and
\* the iteration's locals go out of scope
Continue ==
    /\ ttl' = ttl + 1
    /\ recv' = NoRecv
    /\ pc' = "loop"

----------------------------------------------------------------------------
(* Startup *)

\* if len(os.Args) < 2 { log.Fatalf(...) }
CheckArgs ==
    /\ pc = "args"
    /\ \E nargs \in {1, 2} :
         IF nargs < 2
         THEN Fatal("usage")
         ELSE /\ pc' = "resolve"
              /\ UNCHANGED <<build, ttl, icmpConn, sendSockets, defers, recv, line,
                             completion, logMsg, exitCode, sent, hops, reads,
                             unanswered, allTimedOut>>

\* net.ResolveIPAddr("ip4", target)
Resolve ==
    /\ pc = "resolve"
    /\ \E ok \in BOOLEAN :
         IF ~ok
         THEN Fatal("resolve")
         ELSE /\ pc' = "listen"
              /\ UNCHANGED <<build, ttl, icmpConn, sendSockets, defers, recv, line,
                             completion, logMsg, exitCode, sent, hops, reads,
                             unanswered, allTimedOut>>

\* icmp.ListenPacket("ip4:icmp", "0.0.0.0"); defer icmpConn.Close(); ttl := 1
Listen ==
    /\ pc = "listen"
    /\ \E ok \in BOOLEAN :
         IF ~ok
         THEN Fatal("listen")
         ELSE /\ icmpConn' = "open"
              /\ defers' = Append(defers, <<"icmpConn.Close", 0>>)
              /\ ttl' = 1
              /\ pc' = "loop"
              /\ UNCHANGED <<build, sendSockets, recv, line, completion, logMsg,
                             exitCode, sent, hops, reads, unanswered, allTimedOut>>

----------------------------------------------------------------------------
(* The loop *)

\* LoopCond with an off-by-one ceiling
LoopCondOff(t) == t <= maxHops + 1

\* the loop condition ttl <= maxHops
LoopCond(t) == t <= maxHops

\* the loop condition, then fmt.Printf("%2d ", ttl); past the ceiling main
\* falls off its end and returns
LoopHead ==
    /\ pc = "loop"
    /\ IF LoopCond(ttl)
       THEN /\ hops' = Append(hops, ttl)
            /\ line' = [NoLine EXCEPT !.hop = ttl]
            /\ logMsg' = ""
            /\ pc' = "socket"
            /\ UNCHANGED <<build, ttl, icmpConn, sendSockets, defers, recv,
                           completion, exitCode, sent, reads, unanswered, allTimedOut>>
       ELSE /\ Return
            /\ UNCHANGED <<build, ttl, recv, line, completion, logMsg, sent, hops,
                           reads, unanswered, allTimedOut>>

\* net.ListenPacket("udp4", "0.0.0.0:0")
OpenSendSocket ==
    /\ pc = "socket"
    /\ \E ok \in BOOLEAN :
         IF ~ok
         THEN Fatal("socket")
         ELSE /\ sendSockets' = sendSockets \cup {ttl}
              /\ pc' = "setttl"
              /\ UNCHANGED <<build, ttl, icmpConn, defers, recv, line, completion,
                             logMsg, exitCode, sent, hops, reads, unanswered, allTimedOut>>

\* p.SetTTL(ttl); defer p.Close()
SetTTL ==
    /\ pc = "setttl"
    /\ \E ok \in BOOLEAN :
         IF ~ok
         THEN Fatal("setttl")
         ELSE /\ defers' = Append(defers, <<"p.Close", ttl>>)
              /\ pc' = "write"
              /\ UNCHANGED <<build, ttl, icmpConn, sendSockets, recv, line, completion,
                             logMsg, exitCode, sent, hops, reads, unanswered, allTimedOut>>

\* WriteTo that goes on to the next TTL without awaiting the reply
WriteToNoWait ==
    /\ pc = "write"
    /\ \E ok \in BOOLEAN :
         IF ~ok
         THEN Fatal("write")
         ELSE /\ sent' = Append(sent, ttl)
              /\ ttl' = ttl + 1
              /\ pc' = "loop"
              /\ UNCHANGED <<build, icmpConn, sendSockets, defers, recv, line,
                             completion, logMsg, exitCode, hops, reads, unanswered,
                             allTimedOut>>

\* p.WriteTo([]byte(""), nil, udpAddr): the probe with hop limit ttl leaves
WriteTo ==
    /\ pc = "write"
    /\ \E ok \in BOOLEAN :
         IF ~ok
         THEN Fatal("write")
         ELSE /\ sent' = Append(sent, ttl)
              /\ pc' = "read"
              /\ UNCHANGED <<build, ttl, icmpConn, sendSockets, defers, recv, line,
                             completion, logMsg, exitCode, hops, reads, unanswered,
                             allTimedOut>>

\* icmpConn.SetReadDeadline(now + timeout); icmpConn.ReadFrom(replyBytes):
\* returns the next datagram on the listener, the timeout error when the
\* deadline passes first, or another error
ReadFrom ==
    /\ pc = "read"
    /\ \E r \in ReadResults(ttl, unanswered) :
         /\ recv' = r
         /\ unanswered' = IF r.err = "nil" /\ r.origin = ttl THEN unanswered ELSE ttl
         /\ allTimedOut' = (allTimedOut /\ r.err = "timeout")
    /\ reads' = Append(reads, ttl)
    /\ pc' = "readerr"
    /\ UNCHANGED <<build, ttl, icmpConn, sendSockets, defers, line, completion,
                   logMsg, exitCode, sent, hops>>

\* OnTimeout without the timeout marker
OnTimeoutSilent ==
    /\ Continue
    /\ UNCHANGED <<line, logMsg>>

\* err is a net.Error with Timeout(): fmt.Println("* * * Request timed out."); continue
OnTimeout ==
    /\ line' = [line EXCEPT !.tag = "* * * Request timed out.", !.lines = @ + 1]
    /\ Continue
    /\ UNCHANGED logMsg

\* OnReadError that logs and stays where it is, without the continue
OnReadErrorSpin ==
    /\ logMsg' = logMsg
    /\ UNCHANGED <<pc, ttl, recv, line>>

\* any other read error: log.Printf; continue
OnReadError ==
    /\ logMsg' = "read"
    /\ Continue
    /\ UNCHANGED line

\* if err != nil { ... } after ReadFrom
HandleReadErr ==
    /\ pc = "readerr"
    /\ CASE recv.err = "timeout" -> OnTimeout
         [] recv.err = "other" -> OnReadError
         [] OTHER -> /\ pc' = "parse"
                     /\ UNCHANGED <<ttl, recv, line, logMsg>>
    /\ UNCHANGED <<build, icmpConn, sendSockets, defers, completion, exitCode,
                   sent, hops, reads, unanswered, allTimedOut>>

\* the tag the switch on icmpMessage.Type prints
Tag(type) ==
    CASE type = ICMPTypeTimeExceeded -> "(Time Exceeded)"
      [] type = ICMPTypeDestinationUnreachable -> "(Destination Unreachable)"
      [] OTHER -> "(unknown ICMP type: %d)"

\* IsFinal with the return missing from the switch
IsFinalNever(type) == FALSE

\* IsFinal with the return also in the time-exceeded case
IsFinalEither(type) == type \in {ICMPTypeDestinationUnreachable, ICMPTypeTimeExceeded}

\* the case of the switch that returns from main
IsFinal(type) == type = ICMPTypeDestinationUnreachable

\* OnParseError with log.Fatalf in the place of log.Printf
OnParseErrorFatal ==
    /\ logMsg' = "parse"
    /\ exitCode' = 1
    /\ pc' = "exit"
    /\ UNCHANGED <<ttl, recv, line, completion, icmpConn, sendSockets, defers>>

\* ParseMessage failed: log.Printf; continue
OnParseError ==
    /\ logMsg' = "parse"
    /\ Continue
    /\ UNCHANGED <<line, completion, icmpConn, sendSockets, defers, exitCode>>

\* Classify whose default case prints icmpMessage.Code
ClassifyCode ==
    /\ line' = [line EXCEPT !.addr = recv.peerAddr,
                            !.tag = Tag(recv.type),
                            !.num = IF Tag(recv.type) = "(unknown ICMP type: %d)"
                                    THEN recv.code ELSE -1,
                            !.lines = @ + 1,
                            !.origin = recv.origin]
    /\ IF IsFinal(recv.type)
       THEN /\ completion' = TRUE
            /\ Return
            /\ UNCHANGED <<ttl, recv>>
       ELSE /\ Continue
            /\ UNCHANGED <<completion, icmpConn, sendSockets, defers, exitCode>>
    /\ UNCHANGED logMsg

\* fmt.Printf("%-15s ", peerAddr.String()), then the switch on icmpMessage.Type
Classify ==
    /\ line' = [line EXCEPT !.addr = recv.peerAddr,
                            !.tag = Tag(recv.type),
                            !.num = IF Tag(recv.type) = "(unknown ICMP type: %d)"
                                    THEN recv.type ELSE -1,
                            !.lines = @ + 1,
                            !.origin = recv.origin]
    /\ IF IsFinal(recv.type)
       THEN /\ completion' = TRUE
            /\ Return
            /\ UNCHANGED <<ttl, recv>>
       ELSE /\ Continue
            /\ UNCHANGED <<completion, icmpConn, sendSockets, defers, exitCode>>
    /\ UNCHANGED logMsg

\* icmp.ParseMessage(1, ...) and what follows it in the loop body
ParseMessage ==
    /\ pc = "parse"
    /\ IF ParseFails(ParseLen(recv.n), recv.type)
       THEN OnParseError
       ELSE Classify
    /\ UNCHANGED <<build, sent, hops, reads, unanswered, allTimedOut>>

----------------------------------------------------------------------------

Next ==
    \/ CheckArgs
    \/ Resolve
    \/ Listen
    \/ LoopHead
    \/ OpenSendSocket
    \/ SetTTL
    \/ WriteTo
    \/ ReadFrom
    \/ HandleReadErr
    \/ ParseMessage

Spec == Init /\ [][Next]_vars

\* main is the only flow of control and each of its steps returns: every
\* call into the operating system is bounded, ReadFrom by its read deadline
FairSpec == Spec /\ WF_vars(Next)

TypeOK ==
    /\ build \in {"main", "student"}
    /\ pc \in {"args", "resolve", "listen", "loop", "socket", "setttl", "write",
               "read", "readerr", "parse", "exit"}
    /\ ttl \in 0..(maxHops + 1)
    /\ icmpConn \in {"none", "open", "closed"}
    /\ sendSockets \subseteq 1..maxHops
    /\ exitCode \in {-1, 0, 1}
    /\ completion \in BOOLEAN

----------------------------------------------------------------------------
(* Properties *)

\* the sequence <<1, 2, ..., Len(s)>>
IsCount(s) == \A i \in 1..Len(s) : s[i] = i

\* the elements of the sequence s
Seq2Set(s) == {s[i] : i \in 1..Len(s)}

\* ParseMessage succeeds on the datagram in recv
Decodes == ~ParseFails(ParseLen(recv.n), recv.type)

\* C1: the TTLs of the probes sent, and the hop numbers printed, are
\* 1, 2, 3, ... in this order, without a repeat or a gap; a hop number is
\* printed before its probe is sent
C1_TTLSequence ==
    /\ IsCount(sent)
    /\ IsCount(hops)
    /\ Len(sent) <= Len(hops)
    /\ Len(hops) <= Len(sent) + 1

C1_Witness == Len(sent) = maxHops /\ Len(hops) = maxHops

\* C2: a decoded port-unreachable reply read for TTL k makes main print hop
\* k's line with the responder and the destination-unreachable tag, print the
\* completion line and exit with status 0; once the completion line is
\* printed the process has ended and the last probe sent is the one of the
\* hop reported
C2_PortUnreachableEnds ==
    /\ [][(/\ pc = "parse"
           /\ Decodes
           /\ recv.type = ICMPTypeDestinationUnreachable
           /\ recv.code = CodePortUnreachable)
          => (/\ line'.hop = ttl
              /\ line'.addr = recv.peerAddr
              /\ line'.tag = "(Destination Unreachable)"
              /\ completion'
              /\ pc' = "exit"
              /\ exitCode' = 0
              /\ sent' = sent)]_vars
    /\ [](completion => (/\ pc = "exit"
                         /\ exitCode = 0
                         /\ Len(sent) = line.hop
                         /\ sent[Len(sent)] = line.hop))

C2_Witness ==
    /\ completion
    /\ recv.code = CodePortUnreachable
    /\ line.hop = 3
    /\ line.tag = "(Destination Unreachable)"
    /\ Len(sent) = 3

\* C3: a decoded time-exceeded reply from address A read for TTL k < 30
\* makes main print hop k's line with A and the time-exceeded tag and go to
\* the loop head with TTL k+1, the process still running; from the loop head
\* below the ceiling main goes on to send with that TTL, and a probe sent
\* carries the current TTL
C3_TimeExceededContinues ==
    /\ [][(/\ pc = "parse"
           /\ Decodes
           /\ recv.type = ICMPTypeTimeExceeded
           /\ ttl < maxHops)
          => (/\ line'.hop = ttl
              /\ line'.addr = recv.peerAddr
              /\ line'.tag = "(Time Exceeded)"
              /\ ~completion'
              /\ exitCode' = -1
              /\ pc' = "loop"
              /\ ttl' = ttl + 1)]_vars
    /\ [][(pc = "loop" /\ ttl <= maxHops)
          => (pc' = "socket" /\ ttl' = ttl /\ exitCode' = -1)]_vars
    /\ [][sent' # sent => sent' = Append(sent, ttl)]_vars

C3_Witness ==
    /\ pc = "loop"
    /\ ttl = 4
    /\ exitCode = -1
    /\ line.hop = 3
    /\ line.tag = "(Time Exceeded)"
    /\ line.addr \in Routers

\* C4: when ReadFrom for TTL k ends with the timeout error, main prints the
\* timeout marker as hop k's line and goes to the loop head with TTL k+1,
\* the process still running and no probe sent meanwhile; as long as every
\* receive has timed out, the probes sent are still 1, 2, 3, ... one per
\* iteration
C4_TimeoutContinues ==
    /\ [][(pc = "readerr" /\ recv.err = "timeout")
          => (/\ line'.hop = ttl
              /\ line'.tag = "* * * Request timed out."
              /\ line'.addr = NoAddr
              /\ line'.lines = 1
              /\ pc' = "loop"
              /\ ttl' = ttl + 1
              /\ exitCode' = -1
              /\ sent' = sent)]_vars
    /\ []((allTimedOut /\ pc = "loop")
          => (IsCount(sent) /\ Len(sent) = ttl - 1 /\ reads = sent))

C4_Witness ==
    /\ allTimedOut
    /\ pc = "loop"
    /\ ttl = 4
    /\ line.tag = "* * * Request timed out."
    /\ line.hop = 3

\* C5: never more than 30 probes are sent; a run in which every receive
\* timed out and that returned from main has sent exactly 30 probes and has
\* not printed the completion line
C5_ProbeCeiling ==
    /\ Len(sent) <= maxHops
    /\ (pc = "exit" /\ exitCode = 0 /\ allTimedOut)
          => (Len(sent) = maxHops /\ Len(hops) = maxHops /\ ~completion)

C5_Witness ==
    /\ pc = "exit"
    /\ exitCode = 0
    /\ allTimedOut
    /\ Len(reads) = maxHops

\* C6: a datagram that icmp.ParseMessage rejects, read for TTL k, leaves the
\* TTL at k and sends main back to ReadFrom for the same hop
C6_DecodeFailureRetries ==
    [][(pc = "parse" /\ ~Decodes) => (ttl' = ttl /\ pc' = "read" /\ sent' = sent)]_vars

\* C7: when the process has ended after the ICMP listener was opened, the
\* listener has been closed
C7_ListenerClosedAtExit ==
    (pc = "exit" /\ icmpConn # "none") => icmpConn = "closed"

\* C8: when the iteration of a probed TTL k is over (main is back at the
\* loop head or has returned), exactly one complete hop line has been
\* printed for hop k
C8_OneLinePerProbedHop ==
    (/\ pc \in {"loop", "exit"}
     /\ Len(sent) > 0
     /\ sent[Len(sent)] = line.hop
     /\ line.hop \in Seq2Set(reads))
        => line.lines = 1

\* the messages of the log.Fatalf calls
StartupFatal == {"usage", "resolve", "listen"}
SendFatal == {"socket", "setttl", "write"}

\* C9: a receive timeout, a decode failure or a reply of an unrecognized
\* type leaves the process running, at the loop head with the next TTL; the
\* process has ended only after a fatal error (status 1), after the
\* destination-unreachable line and the completion line (status 0), or
\* past the ceiling with TTL 30 probed (status 0)
C9_OnlyFatalFinalOrCeilingEnds ==
    /\ [][(\/ pc = "readerr" /\ recv.err = "timeout"
           \/ pc = "parse" /\ ~Decodes
           \/ pc = "parse" /\ Decodes
                /\ recv.type \notin {ICMPTypeTimeExceeded, ICMPTypeDestinationUnreachable})
          => (pc' = "loop" /\ ttl' = ttl + 1 /\ exitCode' = -1)]_vars
    /\ [](pc = "exit" =>
            \/ exitCode = 1 /\ logMsg \in StartupFatal \cup SendFatal
            \/ exitCode = 0 /\ completion /\ line.tag = "(Destination Unreachable)"
            \/ exitCode = 0 /\ ~completion /\ ttl = maxHops + 1 /\ Len(sent) = maxHops)
    /\ [](exitCode # -1 <=> pc = "exit")

C9_Witness ==
    /\ pc = "loop"
    /\ ttl = 3
    /\ logMsg = "parse"
    /\ exitCode = -1

\* C10: after a failure to open the send socket, to set its hop limit or to
\* send the datagram at TTL k, the process has ended with status 1, no
\* ReadFrom was called for TTL k, no probe with TTL k or later was sent and
\* hop k was started once
C10_SendFailureAborts ==
    logMsg \in SendFatal =>
        /\ pc = "exit"
        /\ exitCode = 1
        /\ \A i \in 1..Len(reads) : reads[i] < ttl
        /\ \A i \in 1..Len(sent) : sent[i] < ttl
        /\ Cardinality({i \in 1..Len(hops) : hops[i] = ttl}) = 1
        /\ ~completion

C10_Witness ==
    /\ pc = "exit"
    /\ logMsg = "write"
    /\ ttl = 3
    /\ Len(sent) = 2

\* C11: after the usage error, a failed name resolution or a failed
\* icmp.ListenPacket the process has ended with status 1 before the loop:
\* no hop number was printed, no send socket was opened, no probe was sent
\* and no receive was attempted
C11_StartupFailureSendsNothing ==
    logMsg \in StartupFatal =>
        /\ pc = "exit"
        /\ exitCode = 1
        /\ ttl = 0
        /\ sent = <<>>
        /\ hops = <<>>
        /\ reads = <<>>
        /\ sendSockets = {}
        /\ ~completion

C11_Witness ==
    /\ pc = "exit"
    /\ logMsg = "listen"
    /\ icmpConn = "none"
    /\ exitCode = 1

\* C12: when the process has ended, its status is 1 exactly when a
\* log.Fatalf message was logged and 0 otherwise, in particular after the
\* final reply and past the hop ceiling; the completion line has been
\* printed exactly when the current hop line carries the
\* destination-unreachable tag, and then the process has ended
C12_ExitStatus ==
    /\ pc = "exit" =>
          /\ exitCode \in {0, 1}
          /\ exitCode = 1 <=> logMsg \in StartupFatal \cup SendFatal
          /\ completion => exitCode = 0
          /\ (~completion /\ ttl = maxHops + 1) => exitCode = 0
    /\ completion <=> line.tag = "(Destination Unreachable)"
    /\ completion => pc = "exit"

C12_Witness ==
    /\ pc = "exit"
    /\ exitCode = 0
    /\ ~completion
    /\ ttl = maxHops + 1
    /\ line.tag = "(Time Exceeded)"

\* C13: the responder address on hop k's line comes from a message that the
\* probe with TTL k triggered, never from a reply to an earlier probe or
\* from a message no probe triggered
C13_ReportedReplyAnswersItsProbe ==
    line.addr # NoAddr => line.origin = line.hop

\* C14: a probe is sent only when the receive of every earlier probe has
\* returned: the receives attempted are those of the probes sent, in the
\* same order, and the only probe without its receive is the one main is
\* waiting for in ReadFrom
C14_OneProbeOutstanding ==
    /\ Len(reads) <= Len(sent)
    /\ Len(sent) <= Len(reads) + 1
    /\ \A i \in 1..Len(reads) : reads[i] = sent[i]
    /\ Len(sent) = Len(reads) + 1 <=> pc = "read"
    /\ pc \in {"socket", "setttl", "write"} => reads = sent

C14_Witness ==
    /\ pc = "read"
    /\ ttl = 3
    /\ Len(sent) = 3
    /\ Len(reads) = 2

\* C15: at most one send socket is open at any time, and none is open at
\* the loop head or when the next send socket is about to be opened
C15_SendSocketReleased ==
    /\ Cardinality(sendSockets) <= 1
    /\ pc \in {"loop", "socket"} => sendSockets = {}

\* C16: when the completion line has been printed, the reply that ended the
\* run is a destination-unreachable message with the port-unreachable code
\* whose sender is the target
C16_CompletionOnlyFromTarget ==
    completion =>
        /\ recv.type = ICMPTypeDestinationUnreachable
        /\ recv.code = CodePortUnreachable
        /\ recv.peerAddr = Target

\* a decoded reply whose type is neither time exceeded nor destination
\* unreachable is at hand
UnknownReply ==
    /\ pc = "parse"
    /\ Decodes
    /\ recv.type \notin {ICMPTypeTimeExceeded, ICMPTypeDestinationUnreachable}

\* C17 as stated: such a reply read for TTL k is reported on hop k's line
\* with the responder address and the code field of the message, and main
\* goes to the loop head with TTL k+1
C17_UnknownReportsCode ==
    [][UnknownReply
       => (/\ line'.hop = ttl
           /\ line'.addr = recv.peerAddr
           /\ line'.num = recv.code
           /\ pc' = "loop"
           /\ ttl' = ttl + 1)]_vars

\* C17 as amended: such a reply read for TTL k is reported on hop k's line
\* with the responder address and the number of its ICMP type, and main goes
\* to the loop head with TTL k+1, the process still running
C17_UnknownReportsType ==
    [][UnknownReply
       => (/\ line'.hop = ttl
           /\ line'.addr = recv.peerAddr
           /\ line'.tag = "(unknown ICMP type: %d)"
           /\ line'.num = recv.type
           /\ line'.lines = 1
           /\ ~completion'
           /\ exitCode' = -1
           /\ pc' = "loop"
           /\ ttl' = ttl + 1)]_vars

C17_Witness ==
    /\ pc = "loop"
    /\ ttl = 3
    /\ line.hop = 2
    /\ line.tag = "(unknown ICMP type: %d)"
    /\ line.num = ICMPTypeRedirect
    /\ line.addr \in Addrs

\* C18: every run ends: under FairSpec the process eventually exits
C18_Terminates == <>(pc = "exit")

C18_Witness ==
    /\ pc = "exit"
    /\ exitCode = 0
    /\ ~completion
    /\ ~allTimedOut
    /\ Len(reads) = maxHops
    /\ logMsg = "read"

====
